---- MODULE Spec2Model ----
(***************************************************************************)
(* Model of the RCA core of rhoai-demos: the topology graph                *)
(* (utils/graph.py), the episode builder and rule engine                   *)
(* (utils/episodes.py) and the batch driver (scripts/run_rca_step.py).     *)
(*                                                                         *)
(* Representation.                                                         *)
(*  - A string that the code splits or tests on "/" (node ids, entity      *)
(*    values, root_component) is a sequence of its "/"-separated segments: *)
(*    "pod/shop/a" is <<"pod","shop","a">>.  None is the empty sequence.   *)
(*  - A dict key that is missing is the value Absent; a key that is        *)
(*    present with the value None is NoneV.                                *)
(*  - A Python exception leaving a function is a non-empty err string.     *)
(*  - Floats are exact rationals <<numerator, denominator>>.               *)
(***************************************************************************)
EXTENDS Integers, Sequences, FiniteSets, TLC

VARIABLES
    pc,        \* position of the run: "graph", "episodes", "loop", "done", "failed", "queried"
    err,       \* the exception that ended the run or the last query ("" = none)
    snapshot,  \* the topology snapshot document (input)
    df,        \* the event table (input): a sequence of rows
    rules,     \* the rule list (input)
    strhash,   \* hash() of this process for the group-key strings (PYTHONHASHSEED)
    graph,     \* the Graph built from the snapshot: [adj, radj, meta]
    episodes,  \* the list returned by build_episodes
    idx,       \* number of episodes the driver loop has processed
    cands,     \* the list returned by the last apply_rules call
    files,     \* output directory: file name (episode_id) -> incident
    ret,       \* the value returned by the last graph query
    history    \* the episode_id lists of the earlier executions of the driver

vars == <<pc, err, snapshot, df, rules, strhash, graph, episodes, idx, cands, files, ret,
          history>>

----------------------------------------------------------------------------
(* Values *)

Absent == "<absent>"
NoneV  == "<none>"
NoId   == <<>>
NoneLen == -1          \* Optional[int] None, as returned by shortest_path_len
NoCode == -1           \* a null (NaN) status code in the event table

Truthy(v) == v \notin {Absent, NoneV, ""}

\* str() of a value inside an f-string
Fmt(v) == IF v = NoneV THEN "None" ELSE v

\* str.lower() on the owner kinds of the model
Lower(s) ==
    CASE s = "ReplicaSet" -> "replicaset"
      [] s = "Deployment" -> "deployment"
      [] s = "Pod"        -> "pod"
      [] s = "Node"       -> "node"
      [] OTHER            -> s

\* len() of the strings of the model
SegLen(s) ==
    CASE s \in {"a", "b", "x"} -> 1
      [] s \in {"n1", "n2", "d1", "d2", "s1", "s2", "r1", "r2", "i1", "c1", "v1", "v2", "h1", "h2", "p1", "pv"} -> 2
      [] s \in {"rs1", "rs2", "pod", "pvc", "hpa"} -> 3
      [] s \in {"shop", "node", "None"} -> 4
      [] s = "route" -> 5
      [] s = "netpol" -> 6
      [] s \in {"service", "ingress"} -> 7
      [] s = "replicaset" -> 10
      [] s = "deployment" -> 10
      [] OTHER -> 8

RECURSIVE StrLen(_)
StrLen(id) ==
    IF id = <<>> THEN 0
    ELSE IF Len(id) = 1 THEN SegLen(id[1])
    ELSE SegLen(id[1]) + 1 + StrLen(Tail(id))

Min2(a, b) == IF a < b THEN a ELSE b
Max2(a, b) == IF a > b THEN a ELSE b

----------------------------------------------------------------------------
(* Graph: utils/graph.py *)

EmptyGraph == [adj |-> <<>>, radj |-> <<>>, meta |-> <<>>]

\* dict.get(k, [])
GetList(d, k) == IF k \in DOMAIN d THEN d[k] ELSE <<>>

\* defaultdict(list)[k]: the key is created on access
Touch(d, k) == IF k \in DOMAIN d THEN d ELSE d @@ (k :> <<>>)

Put(d, k, v) == [x \in (DOMAIN d) \cup {k} |-> IF x = k THEN v ELSE d[x]]

add_node(g, nid, kind, ns) ==
    [adj  |-> Touch(g.adj, nid),
     radj |-> Touch(g.radj, nid),
     meta |-> Put(g.meta, nid, [kind |-> kind, namespace |-> ns])]

add_edge(g, src, dst, rel) ==
    [adj  |-> Put(g.adj, src, Append(GetList(g.adj, src), <<dst, rel>>)),
     radj |-> Put(g.radj, dst, Append(GetList(g.radj, dst), <<src, rel>>)),
     meta |-> g.meta]

neighbors(g, nid, direction) ==
    IF direction = "out" THEN GetList(g.adj, nid)
    ELSE IF direction = "in" THEN GetList(g.radj, nid)
    ELSE GetList(g.adj, nid) \o GetList(g.radj, nid)

\* the graph after a neighbors() call made through the subscript adj[nid],
\* radj[nid] of the defaultdicts, which creates the key
NeighborsEffect_Subscript(g, nid, direction) ==
    [adj  |-> IF direction = "in" THEN g.adj ELSE Touch(g.adj, nid),
     radj |-> IF direction = "out" THEN g.radj ELSE Touch(g.radj, nid),
     meta |-> g.meta]

\* the graph after a neighbors() call: adj.get(nid, []) and radj.get(nid, [])
\* create no key, and the lists are copied before they are returned
NeighborsEffect(g, nid, direction) == g

\* the graph after neighbors() has been called on each id of the set
RECURSIVE AfterNeighbors(_, _, _)
AfterNeighbors(g, ids, direction) ==
    IF ids = {} THEN g
    ELSE LET nid == CHOOSE n \in ids : TRUE
         IN AfterNeighbors(NeighborsEffect(g, nid, direction), ids \ {nid}, direction)

\* one pass of "for nxt, _rel in neigh: if nxt not in seen: ..." over a
\* neighbour list; qs = [q |-> queue, seen |-> set]
RECURSIVE Visit(_, _, _, _)
Visit(qs, neigh, d, i) ==
    IF i > Len(neigh) THEN qs
    ELSE LET nxt == neigh[i][1] IN
         IF nxt \in qs.seen THEN Visit(qs, neigh, d, i + 1)
         ELSE Visit([q |-> Append(qs.q, <<nxt, d + 1>>), seen |-> qs.seen \cup {nxt}],
                    neigh, d, i + 1)

\* graph.py line 51: "for nxt, _rel in (adj | radj | None) or {}: pass" iterates
\* the KEYS of the dict and unpacks each key string into two names; a key whose
\* length is not 2 raises ValueError.
PlaceholderRaises(g, direction) ==
    LET d == IF direction = "out" THEN g.adj
             ELSE IF direction = "in" THEN g.radj ELSE <<>>
    IN \E k \in DOMAIN d : StrLen(k) # 2

RECURSIVE BfsLoop(_, _, _, _)
BfsLoop(g, qs, max_hops, direction) ==
    IF qs.q = <<>> THEN [err |-> "", val |-> qs.seen]
    ELSE LET nid  == Head(qs.q)[1]
             d    == Head(qs.q)[2]
             rest == [q |-> Tail(qs.q), seen |-> qs.seen]
         IN IF d = max_hops THEN BfsLoop(g, rest, max_hops, direction)
            ELSE IF PlaceholderRaises(g, direction)
                 THEN [err |-> "ValueError", val |-> {}]
            ELSE BfsLoop(g, Visit(rest, neighbors(g, nid, direction), d, 1),
                         max_hops, direction)

\* every seed is queued, known to meta or not
KnownSeeds_Unfiltered(g, start) == start

RECURSIVE KnownSeeds(_, _)
KnownSeeds(g, start) ==
    IF start = <<>> THEN <<>>
    ELSE IF Head(start) \in DOMAIN g.meta
         THEN <<Head(start)>> \o KnownSeeds(g, Tail(start))
         ELSE KnownSeeds(g, Tail(start))

bfs(g, start, max_hops, direction) ==
    LET q == KnownSeeds(g, start)
    IN BfsLoop(g, [q |-> [i \in 1..Len(q) |-> <<q[i], 0>>],
                   seen |-> {q[i] : i \in 1..Len(q)}],
               max_hops, direction)

\* the ids bfs calls neighbors() on: the nodes dequeued below the hop limit
\* (none when the placeholder loop raises first)
BfsExpanded(g, start, max_hops, direction) ==
    IF max_hops = 0 \/ bfs(g, start, max_hops, direction).err # "" THEN {}
    ELSE bfs(g, start, max_hops - 1, direction).val

RECURSIVE SplLoop(_, _, _, _, _)
SplLoop(g, qs, b, direction, max_hops) ==
    IF qs.q = <<>> THEN NoneLen
    ELSE LET nid  == Head(qs.q)[1]
             d    == Head(qs.q)[2]
             rest == [q |-> Tail(qs.q), seen |-> qs.seen]
         IN IF nid = b THEN d
            ELSE IF d = max_hops THEN SplLoop(g, rest, b, direction, max_hops)
            ELSE SplLoop(g, Visit(rest, neighbors(g, nid, direction), d, 1),
                         b, direction, max_hops)

\* the search started without looking the endpoints up in meta
shortest_path_len_NoMetaCheck(g, a, b, direction, max_hops) ==
    SplLoop(g, [q |-> <<<<a, 0>>>>, seen |-> {a}], b, direction, max_hops)

shortest_path_len(g, a, b, direction, max_hops) ==
    IF a \notin DOMAIN g.meta \/ b \notin DOMAIN g.meta THEN NoneLen
    ELSE SplLoop(g, [q |-> <<<<a, 0>>>>, seen |-> {a}], b, direction, max_hops)

DefaultSplHops == 8

\* the ids shortest_path_len calls neighbors() on: the nodes dequeued before
\* b, below the hop limit
RECURSIVE SplExpandedLoop(_, _, _, _, _, _)
SplExpandedLoop(g, qs, b, direction, max_hops, acc) ==
    IF qs.q = <<>> THEN acc
    ELSE LET nid  == Head(qs.q)[1]
             d    == Head(qs.q)[2]
             rest == [q |-> Tail(qs.q), seen |-> qs.seen]
         IN IF nid = b THEN acc
            ELSE IF d = max_hops THEN SplExpandedLoop(g, rest, b, direction, max_hops, acc)
            ELSE SplExpandedLoop(g, Visit(rest, neighbors(g, nid, direction), d, 1),
                                 b, direction, max_hops, acc \cup {nid})

SplExpanded(g, a, b, direction, max_hops) ==
    IF a \notin DOMAIN g.meta \/ b \notin DOMAIN g.meta THEN {}
    ELSE SplExpandedLoop(g, [q |-> <<<<a, 0>>>>, seen |-> {a}], b, direction, max_hops, {})

\* the (src, dst, rel) triples of the adjacency lists, sources in the order srcs
RECURSIVE EdgeList(_, _, _)
EdgeList(g, srcs, i) ==
    IF i > Len(srcs) THEN <<>>
    ELSE [j \in 1..Len(g.adj[srcs[i]]) |->
             <<srcs[i], g.adj[srcs[i]][j][1], g.adj[srcs[i]][j][2]>>]
         \o EdgeList(g, srcs, i + 1)

\* the seen-set keyed on the source alone: one edge per source is kept
RECURSIVE Dedup_BySource(_, _, _)
Dedup_BySource(es, i, acc) ==
    IF i > Len(es) THEN acc
    ELSE IF \E k \in 1..Len(acc) : acc[k][1] = es[i][1] THEN Dedup_BySource(es, i + 1, acc)
    ELSE Dedup_BySource(es, i + 1, Append(acc, es[i]))

\* "if key in seen: continue; seen.add(key); yield": the first occurrence of
\* each triple, in order
RECURSIVE Dedup(_, _, _)
Dedup(es, i, acc) ==
    IF i > Len(es) THEN acc
    ELSE IF \E k \in 1..Len(acc) : acc[k] = es[i] THEN Dedup(es, i + 1, acc)
    ELSE Dedup(es, i + 1, Append(acc, es[i]))

\* srcs is the order in which adj.items() lists the sources
_iter_edges(g, srcs) == Dedup(EdgeList(g, srcs, 1), 1, <<>>)

\* the document json.dumps writes: {meta: {id -> meta}, edges: [{src, dst, rel}]}
to_json(g, srcs) ==
    LET es == _iter_edges(g, srcs)
    IN [meta  |-> g.meta,
        edges |-> [i \in 1..Len(es) |-> [src |-> es[i][1], dst |-> es[i][2], rel |-> es[i][3]]]]

\* for nid, meta in data["meta"].items(): g.add_node(nid, **meta)
RECURSIVE AddNodes(_, _, _)
AddNodes(g, meta, todo) ==
    IF todo = {} THEN g
    ELSE LET nid == CHOOSE n \in todo : TRUE
         IN AddNodes(add_node(g, nid, meta[nid].kind, meta[nid].namespace), meta, todo \ {nid})

\* for e in data["edges"]: g.add_edge(e["src"], e["dst"], e["rel"])
RECURSIVE AddEdges(_, _, _)
AddEdges(g, edges, i) ==
    IF i > Len(edges) THEN g
    ELSE AddEdges(add_edge(g, edges[i].src, edges[i].dst, edges[i].rel), edges, i + 1)

from_json(doc) == AddEdges(AddNodes(EmptyGraph, doc.meta, DOMAIN doc.meta), doc.edges, 1)

----------------------------------------------------------------------------
(* build_from_snapshot: utils/graph.py.  The build state is                *)
(* [g, pod_index, err]; once err is set the exception propagates and the   *)
(* remaining records are not processed.                                    *)

KeyError(st) == [st EXCEPT !.err = "KeyError"]

\* for dst in dsts: g.add_edge(src, dst, rel)
RECURSIVE AddEdgesFrom(_, _, _, _, _)
AddEdgesFrom(g, src, dsts, rel, i) ==
    IF i > Len(dsts) THEN g
    ELSE AddEdgesFrom(add_edge(g, src, dsts[i], rel), src, dsts, rel, i + 1)

\* for src in srcs: g.add_edge(src, dst, rel)
RECURSIVE AddEdgesTo(_, _, _, _, _)
AddEdgesTo(g, srcs, dst, rel, i) ==
    IF i > Len(srcs) THEN g
    ELSE AddEdgesTo(add_edge(g, srcs[i], dst, rel), srcs, dst, rel, i + 1)

NodeStep(st, n) ==
    IF n.name = Absent THEN KeyError(st)
    ELSE [st EXCEPT !.g = add_node(st.g, <<"node", Fmt(n.name)>>, "Node", NoneV)]

PodOwnerEdge(st, nid, p) ==
    IF p.owner = <<>> THEN st
    ELSE LET owner == p.owner[1] IN
         IF owner.kind = Absent \/ owner.name = Absent THEN KeyError(st)
         ELSE IF owner.kind = NoneV THEN [st EXCEPT !.err = "AttributeError"]
         ELSE [st EXCEPT !.g = add_edge(st.g, nid,
                   <<Lower(owner.kind), Fmt(p.ns), Fmt(owner.name)>>, "owned_by")]

PodStep(st, p) ==
    IF p.ns = Absent \/ p.name = Absent THEN KeyError(st)
    ELSE LET nid == <<"pod", Fmt(p.ns), Fmt(p.name)>>
             g1  == add_node(st.g, nid, "Pod", p.ns)
             pi  == Put(st.pod_index, p.name, Append(GetList(st.pod_index, p.name), nid))
             g2  == IF Truthy(p.node)
                    THEN add_edge(g1, nid, <<"node", p.node>>, "runs_on") ELSE g1
         IN PodOwnerEdge([st EXCEPT !.g = g2, !.pod_index = pi], nid, p)

ReplicaSetStep(st, rs) ==
    IF rs.ns = Absent \/ rs.name = Absent THEN KeyError(st)
    ELSE LET rid == <<"replicaset", Fmt(rs.ns), Fmt(rs.name)>>
             g1  == add_node(st.g, rid, "ReplicaSet", rs.ns)
         IN IF rs.owner = <<>> THEN [st EXCEPT !.g = g1]
            ELSE IF rs.owner[1].name = Absent THEN KeyError(st)
            ELSE [st EXCEPT !.g = add_edge(g1, rid,
                      <<"deployment", Fmt(rs.ns), Fmt(rs.owner[1].name)>>, "owned_by")]

DeploymentStep(st, d) ==
    IF d.ns = Absent \/ d.name = Absent THEN KeyError(st)
    ELSE [st EXCEPT !.g = add_node(st.g, <<"deployment", Fmt(d.ns), Fmt(d.name)>>,
                                    "Deployment", d.ns)]

ServiceStep(st, s) ==
    IF s.ns = Absent \/ s.name = Absent THEN KeyError(st)
    ELSE [st EXCEPT !.g = add_node(st.g, <<"service", Fmt(s.ns), Fmt(s.name)>>,
                                    "Service", s.ns)]

\* for p in e.get("pods", []): for pod_id in pod_index.get(p, []): add_edge
RECURSIVE EndpointPods(_, _, _, _, _)
EndpointPods(g, pod_index, sid, pods, i) ==
    IF i > Len(pods) THEN g
    ELSE EndpointPods(AddEdgesFrom(g, sid, GetList(pod_index, pods[i]), "routes_to", 1),
                      pod_index, sid, pods, i + 1)

EndpointsStep(st, e) ==
    IF e.ns = Absent \/ e.svc = Absent THEN KeyError(st)
    ELSE [st EXCEPT !.g = EndpointPods(st.g, st.pod_index,
                              <<"service", Fmt(e.ns), Fmt(e.svc)>>, e.pods, 1)]

RouteStep(st, r) ==
    IF r.ns = Absent \/ r.name = Absent \/ r.to_svc = Absent THEN KeyError(st)
    ELSE LET rid == <<"route", Fmt(r.ns), Fmt(r.name)>> IN
         [st EXCEPT !.g = add_edge(add_node(st.g, rid, "Route", r.ns), rid,
                              <<"service", Fmt(r.ns), Fmt(r.to_svc)>>, "exposes")]

IngressStep(st, ing) ==
    IF ing.ns = Absent \/ ing.name = Absent \/ ing.to_svc = Absent THEN KeyError(st)
    ELSE LET iid == <<"ingress", Fmt(ing.ns), Fmt(ing.name)>> IN
         [st EXCEPT !.g = add_edge(add_node(st.g, iid, "Ingress", ing.ns), iid,
                              <<"service", Fmt(ing.ns), Fmt(ing.to_svc)>>, "exposes")]

PvcStep(st, pvc) ==
    IF pvc.ns = Absent \/ pvc.name = Absent THEN KeyError(st)
    ELSE LET pcid == <<"pvc", Fmt(pvc.ns), Fmt(pvc.name)>>
             g1   == add_node(st.g, pcid, "PVC", pvc.ns)
             g2   == IF Truthy(pvc.pv)
                     THEN add_edge(g1, pcid, <<"pv", pvc.pv>>, "binds") ELSE g1
             g3   == IF Truthy(pvc.pod)
                     THEN AddEdgesTo(g2, GetList(st.pod_index, pvc.pod), pcid, "mounts", 1)
                     ELSE g2
         IN [st EXCEPT !.g = g3]

PvStep(st, pv) ==
    IF pv.name = Absent THEN KeyError(st)
    ELSE [st EXCEPT !.g = add_node(st.g, <<"pv", Fmt(pv.name)>>, "PV", NoneV)]

HpaStep(st, h) ==
    IF h.ns = Absent \/ h.name = Absent \/ h.target_deploy = Absent THEN KeyError(st)
    ELSE LET hid == <<"hpa", Fmt(h.ns), Fmt(h.name)>> IN
         [st EXCEPT !.g = add_edge(add_node(st.g, hid, "HPA", h.ns), hid,
                              <<"deployment", Fmt(h.ns), Fmt(h.target_deploy)>>, "targets")]

NetpolStep(st, np) ==
    IF np.ns = Absent \/ np.name = Absent THEN KeyError(st)
    ELSE [st EXCEPT !.g = add_node(st.g, <<"netpol", Fmt(np.ns), Fmt(np.name)>>,
                                    "NetworkPolicy", np.ns)]

\* the body of the loop over the section sec
SectionStep(sec, st, rec) ==
    CASE sec = "nodes"       -> NodeStep(st, rec)
      [] sec = "pods"        -> PodStep(st, rec)
      [] sec = "replicasets" -> ReplicaSetStep(st, rec)
      [] sec = "deployments" -> DeploymentStep(st, rec)
      [] sec = "services"    -> ServiceStep(st, rec)
      [] sec = "endpoints"   -> EndpointsStep(st, rec)
      [] sec = "routes"      -> RouteStep(st, rec)
      [] sec = "ingresses"   -> IngressStep(st, rec)
      [] sec = "pvcs"        -> PvcStep(st, rec)
      [] sec = "pvs"         -> PvStep(st, rec)
      [] sec = "hpas"        -> HpaStep(st, rec)
      [] sec = "netpols"     -> NetpolStep(st, rec)

\* for rec in snapshot.get(sec, []): ..., left at the first exception
RECURSIVE ForEach(_, _, _, _)
ForEach(sec, st, recs, i) ==
    IF i > Len(recs) \/ st.err # "" THEN st
    ELSE ForEach(sec, SectionStep(sec, st, recs[i]), recs, i + 1)

\* the sections in the order the builder reads them
SectionOrder == <<"nodes", "pods", "replicasets", "deployments", "services", "endpoints",
                  "routes", "ingresses", "pvcs", "pvs", "hpas", "netpols">>

RECURSIVE BuildSections(_, _, _)
BuildSections(snap, st, k) ==
    IF k > Len(SectionOrder) THEN st
    ELSE BuildSections(snap, ForEach(SectionOrder[k], st, snap[SectionOrder[k]], 1), k + 1)

\* returns [g, pod_index, err]; the caller gets g when err = "" and the
\* exception otherwise
build_from_snapshot(snap) ==
    BuildSections(snap, [g |-> EmptyGraph, pod_index |-> <<>>, err |-> ""], 1)

----------------------------------------------------------------------------
(* Numbers.  A Python float is the exact rational <<n, d>> with d > 0, in  *)
(* lowest terms.                                                           *)

Abs(n) == IF n < 0 THEN -n ELSE n

RECURSIVE GCD(_, _)
GCD(a, b) == IF b = 0 THEN a ELSE GCD(b, a % b)

Rat(n, d) ==
    LET k == GCD(Abs(n), Abs(d))
        s == IF d < 0 THEN -1 ELSE 1
    IN IF n = 0 THEN <<0, 1>> ELSE <<(s * n) \div k, (s * d) \div k>>

Zero == Rat(0, 1)
One  == Rat(1, 1)
Tenths(n) == Rat(n, 10)

RAdd(a, b) == Rat(a[1] * b[2] + b[1] * a[2], a[2] * b[2])
RMul(a, b) == Rat(a[1] * b[1], a[2] * b[2])
RLt(a, b)  == a[1] * b[2] < b[1] * a[2]
RLe(a, b)  == a[1] * b[2] <= b[1] * a[2]
RMin(a, b) == IF RLt(b, a) THEN b ELSE a
RMax(a, b) == IF RLt(a, b) THEN b ELSE a

\* round(x, 4): nearest multiple of 1/10000, ties to even
Round4(a) ==
    LET num == a[1] * 10000
        q   == num \div a[2]
        r2  == 2 * (num - q * a[2])
        k   == IF r2 < a[2] THEN q
               ELSE IF r2 > a[2] THEN q + 1
               ELSE IF q % 2 = 0 THEN q ELSE q + 1
    IN Rat(k, 10000)

----------------------------------------------------------------------------
(* build_episodes: utils/episodes.py.  A row of the event table is         *)
(* [ts, namespace, pod, node, route, level, code, msg, container_restart,  *)
(*  rollout_in_window]; ts is in minutes, a null entity column is <<>>.    *)

WindowMinutes == 10      \* the driver's --window default, "10min"
SampleCap == 200         \* gdf.head(200)
HashMask == 268435455    \* 0xfffffff

\* the window whose start is nearest to ts
WindowStart_Nearest(ts) == ((ts + WindowMinutes \div 2) \div WindowMinutes) * WindowMinutes

WindowStart(ts) == (ts \div WindowMinutes) * WindowMinutes

\* the strings of the entity columns in Python's str order; nulls sort last
EntityOrder == << <<"a">>, <<"b">>, <<"n1">>, <<"n2">>, <<"pod", "shop", "a">>,
                  <<"pod", "shop", "b">>, <<"shop">>, <<>> >>

EntityRank(v) == CHOOSE i \in 1..Len(EntityOrder) : EntityOrder[i] = v

GroupKey(row) == <<row.namespace, row.pod, row.node>>

\* tuple order of the group keys, as groupby(sort=True) lists the groups
KeyLess(k1, k2) ==
    \E i \in 1..3 : /\ EntityRank(k1[i]) < EntityRank(k2[i])
                    /\ \A j \in 1..(i - 1) : k1[j] = k2[j]

RECURSIVE SortedKeys(_)
SortedKeys(S) ==
    IF S = {} THEN <<>>
    ELSE LET m == CHOOSE k \in S : \A o \in S \ {k} : KeyLess(k, o)
         IN <<m>> \o SortedKeys(S \ {m})

RECURSIVE SortedInts(_)
SortedInts(S) ==
    IF S = {} THEN <<>>
    ELSE LET m == CHOOSE k \in S : \A o \in S : k <= o
         IN <<m>> \o SortedInts(S \ {m})

\* gdf["container_restart"].sum(), added up value by value: vals lists the
\* distinct values of the column
RECURSIVE SumRestarts(_, _, _)
SumRestarts(rows, vals, i) ==
    IF i > Len(vals) THEN 0
    ELSE vals[i] * Cardinality({j \in 1..Len(rows) : rows[j].container_restart = vals[i]})
         + SumRestarts(rows, vals, i + 1)

\* features of one group (episodes.py lines 68-78): rollout_in_window is not
\* among the keys
Features(gdf) ==
    LET total  == Len(gdf)
        errors == Cardinality({i \in 1..total : gdf[i].level = "error"})
        http5xx == Cardinality({i \in 1..total : gdf[i].code >= 500})
    IN [count       |-> Rat(total, 1),
        error_ratio |-> IF total # 0 THEN Rat(errors, total) ELSE Zero,
        restarts    |-> Rat(SumRestarts(gdf, SortedInts({gdf[j].container_restart : j \in 1..total}), 1), 1),
        http5xx     |-> Rat(http5xx, 1)]

\* gdf[col].dropna().astype(str).unique(), empty strings removed: the
\* non-null values in the order of their first rows
UniqueVals(gdf, col) ==
    LET first == SortedInts({i \in 1..Len(gdf) :
                                /\ gdf[i][col] # <<>>
                                /\ \A j \in 1..(i - 1) : gdf[j][col] # gdf[i][col]})
    IN [k \in 1..Len(first) |-> gdf[first[k]][col]]

\* an entity kind without values is not a key of the dict: <<>> here
Entities(gdf) ==
    [namespace |-> UniqueVals(gdf, "namespace"),
     pod       |-> UniqueVals(gdf, "pod"),
     node      |-> UniqueVals(gdf, "node"),
     route     |-> UniqueVals(gdf, "route")]

Event(row) ==
    [ts |-> row.ts, namespace |-> row.namespace, pod |-> row.pod, node |-> row.node,
     level |-> row.level, code |-> row.code, route |-> row.route, msg |-> row.msg]

EventSample(gdf) ==
    LET head == SubSeq(gdf, 1, Min2(SampleCap, Len(gdf)))
    IN [i \in 1..Len(head) |-> Event(head[i])]

\* f"{wstart.value}::{hash(str(gkey)) & 0xfffffff:07x}": both fields are
\* printed injectively, so the id is the pair
EpisodeId(wstart, gkey, hashfn) == <<wstart, hashfn[gkey] % (HashMask + 1)>>

Episode(wstart, gkey, gdf, hashfn) ==
    [episode_id |-> EpisodeId(wstart, gkey, hashfn),
     start      |-> wstart,
     end        |-> wstart + WindowMinutes,
     entities   |-> Entities(gdf),
     features   |-> Features(gdf),
     events     |-> EventSample(gdf)]

RECURSIVE GroupEpisodes(_, _, _, _, _)
GroupEpisodes(wstart, wdf, keys, i, hashfn) ==
    IF i > Len(keys) THEN <<>>
    ELSE <<Episode(wstart, keys[i],
                   SelectSeq(wdf, LAMBDA r : GroupKey(r) = keys[i]), hashfn)>>
         \o GroupEpisodes(wstart, wdf, keys, i + 1, hashfn)

RECURSIVE WindowEpisodes(_, _, _, _)
WindowEpisodes(table, wstarts, i, hashfn) ==
    IF i > Len(wstarts) THEN <<>>
    ELSE LET wdf  == SelectSeq(table, LAMBDA r : WindowStart(r.ts) = wstarts[i])
             keys == SortedKeys({GroupKey(wdf[j]) : j \in 1..Len(wdf)})
         IN GroupEpisodes(wstarts[i], wdf, keys, 1, hashfn)
            \o WindowEpisodes(table, wstarts, i + 1, hashfn)

\* the rows left in the order of the table
SortRowsByTs_TableOrder(table, tss, i) == IF i = 1 THEN table ELSE <<>>

\* groupby(pd.Grouper(freq=window)) groups a copy of the frame that it has
\* sorted on the ts index with a stable sort (Grouper._set_grouper): the
\* rows of the earliest ts in table order, then those of the next ts, ...
\* (tss lists the ts values in ascending order)
RECURSIVE SortRowsByTs(_, _, _)
SortRowsByTs(table, tss, i) ==
    IF i > Len(tss) THEN <<>>
    ELSE SelectSeq(table, LAMBDA r : r.ts = tss[i]) \o SortRowsByTs(table, tss, i + 1)

build_episodes(table, hashfn) ==
    WindowEpisodes(SortRowsByTs(table, SortedInts({table[j].ts : j \in 1..Len(table)}), 1),
                   SortedInts({WindowStart(table[j].ts) : j \in 1..Len(table)}),
                   1, hashfn)

----------------------------------------------------------------------------
(* Rule engine: utils/episodes.py.                                         *)
(* A signal is [key, name, op, value, pat]; a rule is                      *)
(* [id, mode, sigs, root_component, score] where mode is "all", "any" or   *)
(* "none" (no such key under `when`) and score maps the weight names the   *)
(* rule gives to rationals.                                                *)

\* "needle in haystack" on the lower-cased message strings of the model
Contains(hay, needle) ==
    \/ needle = ""
    \/ hay = needle
    \/ <<hay, needle>> \in {<<"nodenotready", "notready">>, <<"scaled up", "scaled">>}

StrLower(s) ==
    CASE s = "NodeNotReady" -> "nodenotready"
      [] s = "NotReady"     -> "notready"
      [] s = "Scaled up"    -> "scaled up"
      [] OTHER              -> s

Compare(op, x, val) ==
    CASE op = "<"  -> RLt(x, val)
      [] op = "<=" -> RLe(x, val)
      [] op = ">"  -> RLt(val, x)
      [] op = ">=" -> RLe(val, x)
      [] op = "==" -> x = val
      [] op = "!=" -> x # val

KnownOps == {"<", "<=", ">", ">=", "==", "!="}

\* returns [err, val]
_has_signal(ep, sig) ==
    IF sig.key = "metric" THEN
        LET op == IF sig.op = Absent THEN ">" ELSE sig.op IN
        IF sig.name \notin DOMAIN ep.features THEN [err |-> "", val |-> FALSE]
        ELSE IF op \notin KnownOps THEN [err |-> "KeyError", val |-> FALSE]
        ELSE [err |-> "", val |-> Compare(op, ep.features[sig.name], sig.value)]
    ELSE IF sig.key \in {"event", "log_pattern"} THEN
        [err |-> "",
         val |-> \E i \in 1..Len(ep.events) :
                     Contains(StrLower(ep.events[i].msg), StrLower(sig.pat))]
    ELSE [err |-> "", val |-> FALSE]

\* all(_has_signal(ep, s) for s in cond["all"]): stops at the first false
RECURSIVE EvalAll(_, _, _)
EvalAll(ep, sigs, i) ==
    IF i > Len(sigs) THEN [err |-> "", val |-> TRUE]
    ELSE LET r == _has_signal(ep, sigs[i]) IN
         IF r.err # "" \/ ~r.val THEN r ELSE EvalAll(ep, sigs, i + 1)

\* any(_has_signal(ep, s) for s in cond["any"]): stops at the first true
RECURSIVE EvalAny(_, _, _)
EvalAny(ep, sigs, i) ==
    IF i > Len(sigs) THEN [err |-> "", val |-> FALSE]
    ELSE LET r == _has_signal(ep, sigs[i]) IN
         IF r.err # "" \/ r.val THEN r ELSE EvalAny(ep, sigs, i + 1)

RuleOk(ep, r) ==
    IF r.mode = "all" THEN EvalAll(ep, r.sigs, 1)
    ELSE IF r.mode = "any" THEN EvalAny(ep, r.sigs, 1)
    ELSE [err |-> "", val |-> TRUE]

\* f"{k}/{v}" if "/" not in v else v
FocusId(k, v) == IF Len(v) = 1 THEN <<k>> \o v ELSE v

Focus(ep) ==
    IF ep.entities.pod # <<>> THEN FocusId("pod", ep.entities.pod[1])
    ELSE IF ep.entities.node # <<>> THEN FocusId("node", ep.entities.node[1])
    ELSE IF ep.entities.namespace # <<>> THEN FocusId("namespace", ep.entities.namespace[1])
    ELSE NoId

\* n.startswith(root_component + "/")
StartsWith(n, root_component) == Len(n) >= 2 /\ n[1] = root_component

RuleBfsHops == 3         \* graph.bfs([focus], max_hops=3)
NoPathLen == 99          \* "shortest_path_len(...) or 99"

\* graph.shortest_path_len(focus, n) or 99
PathLenOr99(g, focus, n) ==
    LET d == shortest_path_len(g, focus, n, "both", DefaultSplHops)
    IN IF d = NoneLen \/ d = 0 THEN NoPathLen ELSE d

Matches(g, focus, root_component) ==
    {n \in bfs(g, <<focus>>, RuleBfsHops, "both").val : StartsWith(n, root_component)}

\* the (target, hop) pairs min(distances, key=...) can return: the first of
\* the closest matches in the iteration order of the set `neigh`, which is
\* the order of the string hashes of this process
RootChoices(g, focus, r) ==
    IF ~Truthy(r.root_component) \/ focus = NoId THEN {[target |-> NoId, hop |-> NoneLen]}
    ELSE LET matches == Matches(g, focus, r.root_component)
             best    == {n \in matches : \A m \in matches :
                            PathLenOr99(g, focus, n) <= PathLenOr99(g, focus, m)}
         IN IF matches = {} THEN {[target |-> NoId, hop |-> NoneLen]}
            ELSE {[target |-> n, hop |-> PathLenOr99(g, focus, n)] : n \in best}

\* max(0.0, 1.0 - 0.2*hop), left at 0.0 when hop is None or 99
TopoScore(hop) ==
    IF hop # NoneLen /\ hop # NoPathLen THEN RMax(Zero, RAdd(One, Rat(-2 * hop, 10)))
    ELSE Zero

\* r.get("score", {}).get(name, default)
Weight(r, name, default) == IF name \in DOMAIN r.score THEN r.score[name] ELSE default

\* features.get(name, 0)
Feature(ep, name) == IF name \in DOMAIN ep.features THEN ep.features[name] ELSE Zero

\* the total without the magnitude term
Candidate_TotalWithoutMagnitude(ep, r, choice) ==
    LET focus     == Focus(ep)
        temporal  == Weight(r, "temporal", Tenths(3))
        magnitude == RMul(Weight(r, "magnitude", Tenths(3)),
                          RMin(One, Feature(ep, "error_ratio")))
        change    == RMul(Weight(r, "change_flag", Zero), Feature(ep, "rollout_in_window"))
        topology  == RMul(Weight(r, "topology", Tenths(4)), TopoScore(choice.hop))
        total     == RAdd(RAdd(temporal, topology), change)
    IN [component |-> IF choice.target # NoId THEN choice.target
                      ELSE IF focus # NoId THEN focus ELSE <<"cluster">>,
        reason    |-> r.id,
        score_breakdown |-> [temporal |-> temporal, topology |-> topology,
                             magnitude |-> magnitude, change |-> change],
        score     |-> Round4(total)]

Candidate(ep, r, choice) ==
    LET focus     == Focus(ep)
        temporal  == Weight(r, "temporal", Tenths(3))
        magnitude == RMul(Weight(r, "magnitude", Tenths(3)),
                          RMin(One, Feature(ep, "error_ratio")))
        change    == RMul(Weight(r, "change_flag", Zero), Feature(ep, "rollout_in_window"))
        topology  == RMul(Weight(r, "topology", Tenths(4)), TopoScore(choice.hop))
        total     == RAdd(RAdd(RAdd(temporal, topology), magnitude), change)
    IN [component |-> IF choice.target # NoId THEN choice.target
                      ELSE IF focus # NoId THEN focus ELSE <<"cluster">>,
        reason    |-> r.id,
        score_breakdown |-> [temporal |-> temporal, topology |-> topology,
                             magnitude |-> magnitude, change |-> change],
        score     |-> Round4(total)]

\* the candidate lists the loop over the rules can build before the sort:
\* a set of [err, cands]
RECURSIVE RuleLoop(_, _, _, _, _)
RuleLoop(ep, rs, g, i, acc) ==
    IF i > Len(rs) THEN {[err |-> "", cands |-> acc]}
    ELSE LET ok == RuleOk(ep, rs[i]) IN
         IF ok.err # "" THEN {[err |-> ok.err, cands |-> <<>>]}
         ELSE IF ~ok.val THEN RuleLoop(ep, rs, g, i + 1, acc)
         ELSE UNION {RuleLoop(ep, rs, g, i + 1, Append(acc, Candidate(ep, rs[i], c)))
                     : c \in RootChoices(g, Focus(ep), rs[i])}

\* the rules apply_rules gets to score: those that match, up to the first
\* rule whose evaluation raises
ScoredRules(ep, rs) ==
    {i \in 1..Len(rs) : /\ RuleOk(ep, rs[i]).err = "" /\ RuleOk(ep, rs[i]).val
                         /\ \A j \in 1..i : RuleOk(ep, rs[j]).err = ""}

\* the ids the graph queries of one scored rule call neighbors() on
RuleExpanded(g, ep, r) ==
    LET focus == Focus(ep) IN
    IF ~Truthy(r.root_component) \/ focus = NoId THEN {}
    ELSE BfsExpanded(g, <<focus>>, RuleBfsHops, "both")
         \cup UNION {SplExpanded(g, focus, n, "both", DefaultSplHops)
                      : n \in Matches(g, focus, r.root_component)}

\* the graph after an apply_rules call
GraphAfterRules(g, ep, rs) ==
    AfterNeighbors(g, UNION {RuleExpanded(g, ep, rs[i]) : i \in ScoredRules(ep, rs)}, "both")

\* cands.sort(key=lambda c: c.score, reverse=True): stable, descending
RECURSIVE InsertByScore(_, _)
InsertByScore(sorted, c) ==
    IF sorted = <<>> THEN <<c>>
    ELSE IF RLt(Head(sorted).score, c.score) THEN <<c>> \o sorted
    ELSE <<Head(sorted)>> \o InsertByScore(Tail(sorted), c)

\* the candidates left in rule order
SortByScore_Unsorted(cs, i, acc) == cs

RECURSIVE SortByScore(_, _, _)
SortByScore(cs, i, acc) ==
    IF i > Len(cs) THEN acc ELSE SortByScore(cs, i + 1, InsertByScore(acc, cs[i]))

TopN == 3                \* return cands[:3]

\* the results apply_rules can return: a set of [err, cands]
apply_rules(ep, rs, g) ==
    {IF o.err # "" THEN o
     ELSE [err |-> "", cands |-> SubSeq(SortByScore(o.cands, 1, <<>>), 1,
                                         Min2(TopN, Len(o.cands)))]
     : o \in RuleLoop(ep, rs, g, 1, <<>>)}

----------------------------------------------------------------------------
(* Inputs of the model *)

MaxRecs   == 2     \* records in a snapshot of the graph specification
MaxSeeds  == 2     \* distinct seeds of a bfs call
MaxHops   == 2     \* largest max_hops of a query
MaxEvents == 3     \* rows of an event table
MaxRules  == 4     \* rules of a rule list

SeqsUpTo(S, n) == UNION {[1..k -> S] : k \in 0..n}

Owner(kind, name) == <<[kind |-> kind, name |-> name]>>

PodRec(name, ns, node, owner) == [name |-> name, ns |-> ns, node |-> node, owner |-> owner]

\* the records snapshots are made of, each with the section it belongs to
SnapshotRecs == <<
    [sec |-> "nodes",       rec |-> [name |-> "n1"]],
    [sec |-> "pods",        rec |-> PodRec("a", "shop", "n1", Owner("ReplicaSet", "rs1"))],
    [sec |-> "pods",        rec |-> PodRec("b", "shop", "n2", <<>>)],
    [sec |-> "replicasets", rec |-> [name |-> "rs1", ns |-> "shop", owner |-> Owner("Deployment", "d1")]],
    [sec |-> "deployments", rec |-> [name |-> "d1", ns |-> "shop"]],
    [sec |-> "services",    rec |-> [name |-> "s1", ns |-> "shop"]],
    [sec |-> "endpoints",   rec |-> [svc |-> "s1", ns |-> "shop", pods |-> <<"a", "b", "a">>]],
    [sec |-> "routes",      rec |-> [name |-> "r1", ns |-> "shop", to_svc |-> "s1"]],
    [sec |-> "pvcs",        rec |-> [name |-> "c1", ns |-> "shop", pod |-> "a", pv |-> "v1"]],
    [sec |-> "hpas",        rec |-> [name |-> "h1", ns |-> "shop", target_deploy |-> "d1"]],
    [sec |-> "pods",        rec |-> PodRec("a", Absent, "n1", <<>>)],
    [sec |-> "pods",        rec |-> PodRec("b", "shop", Absent, Owner(Absent, "rs1"))],
    [sec |-> "services",    rec |-> [name |-> "s2", ns |-> Absent]],
    [sec |-> "routes",      rec |-> [name |-> "r2", ns |-> "shop", to_svc |-> Absent]],
    [sec |-> "hpas",        rec |-> [name |-> "h2", ns |-> "shop", target_deploy |-> Absent]],
    [sec |-> "ingresses",   rec |-> [name |-> "i1", ns |-> "shop", to_svc |-> "s1"]],
    [sec |-> "pvs",         rec |-> [name |-> "v1"]],
    [sec |-> "netpols",     rec |-> [name |-> "p1", ns |-> "shop"]],
    [sec |-> "pods",        rec |-> PodRec("b", "shop", "n1", Owner("Pod", "a"))],
    [sec |-> "pods",        rec |-> PodRec("a", "shop", "n1", Owner("Pod", "b"))],
    [sec |-> "pods",        rec |-> PodRec("b", "shop", NoneV, Owner("Pod", "b"))] >>

\* the records the snapshots of the graph specification choose from: the
\* well-formed ones, the ones that lack a field, and pods owned by pods
\* (an ownership cycle between a and b, and b owning itself)
FamilyRecs == (1..15) \cup {19, 20, 21}

Section(I, sec) ==
    LET is == SortedInts({i \in I : SnapshotRecs[i].sec = sec})
    IN [j \in 1..Len(is) |-> SnapshotRecs[is[j]].rec]

\* snapshot.get(sec, []): a section that is missing is the empty list
SnapshotOf(I) ==
    [nodes       |-> Section(I, "nodes"),       pods      |-> Section(I, "pods"),
     replicasets |-> Section(I, "replicasets"), deployments |-> Section(I, "deployments"),
     services    |-> Section(I, "services"),    endpoints |-> Section(I, "endpoints"),
     routes      |-> Section(I, "routes"),      ingresses |-> Section(I, "ingresses"),
     pvcs        |-> Section(I, "pvcs"),        pvs       |-> Section(I, "pvs"),
     hpas        |-> Section(I, "hpas"),        netpols   |-> Section(I, "netpols")]

Snapshots ==
    {SnapshotOf(I) : I \in {J \in SUBSET FamilyRecs : Cardinality(J) <= MaxRecs}}

\* pod/shop/a runs on node/n1 and is owned by rs1 of d1, which h1 targets;
\* s1 routes to it, r1 exposes s1, and it mounts c1 bound to v1
BaseSnapshot == SnapshotOf({1, 2, 4, 5, 6, 7, 8, 9, 10, 16, 17, 18})

\* the same without the deployment d1, which rs1 and h1 still refer to, and
\* with a second pod b on node/n1, owned by pod a
TieSnapshot == SnapshotOf({1, 2, 4, 6, 7, 8, 9, 10, 16, 17, 18, 19})

\* the snapshots the rule lists are tried on
RuleSnapshots == {BaseSnapshot, TieSnapshot}

Row(ts, ns, pod, node, level, code, msg, restart, rollout) ==
    [ts |-> ts, namespace |-> ns, pod |-> pod, node |-> node, route |-> <<>>,
     level |-> level, code |-> code, msg |-> msg,
     container_restart |-> restart, rollout_in_window |-> rollout]

RowA1 == Row(1, <<"shop">>, <<"a">>, <<"n1">>, "error", NoCode, "NodeNotReady", 0, 0)
RowA2 == Row(2, <<"shop">>, <<"a">>, <<"n1">>, "info", 503, "Scaled up", 0, 1)
RowB  == Row(3, <<"shop">>, <<"b">>, <<"n1">>, "error", 503, "NodeNotReady", 1, 0)
RowF  == Row(4, <<"shop">>, <<"pod", "shop", "a">>, <<"n1">>, "error", 503, "NodeNotReady", 0, 1)
RowL  == Row(10, <<"shop">>, <<"a">>, <<"n1">>, "info", NoCode, "ok", 0, 0)
RowN  == Row(5, <<>>, <<>>, <<>>, "info", NoCode, "ok", 0, 0)
RowNode == Row(6, <<"shop">>, <<>>, <<"n1">>, "error", 503, "NodeNotReady", 0, 0)

Rows == {RowA1, RowA2, RowB, RowL, RowN}

Tables == SeqsUpTo(Rows, MaxEvents)

\* the tables the rule lists are tried on
RuleTables == {<<RowA1, RowA2>>, <<RowF>>, <<RowNode>>}

\* one more row than the sample keeps, all of one group and one window:
\* in ts order, and with the earliest row last
LongRow(ts) == Row(ts, <<"shop">>, <<"a">>, <<"n1">>, "info", NoCode, "ok", 0, 0)
LongSorted == [i \in 1..(SampleCap + 1) |-> LongRow(IF 2 * i <= SampleCap THEN 1 ELSE 2)]
LongUnsorted == [i \in 1..(SampleCap + 1) |-> LongRow(IF i <= SampleCap THEN 5 ELSE 1)]
LongTables == {LongSorted, LongUnsorted}

KeysOf(table) == {GroupKey(table[i]) : i \in 1..Len(table)}

\* values hash() may give a string: three that differ, two of them only
\* above the 28 bits the episode id keeps
RawHashes == {0, 1, HashMask + 1}

\* a process whose hashes of the group keys differ in their low bits
DistinctHash == [k \in {GroupKey(r) : r \in Rows \cup {RowF, RowNode}} |-> EntityRank(k[2])]

NoScore == [n \in {} |-> Zero]

Sig(key, name, op, value, pat) ==
    [key |-> key, name |-> name, op |-> op, value |-> value, pat |-> pat]

Rule(id, mode, sigs, root_component, score) ==
    [id |-> id, mode |-> mode, sigs |-> sigs, root_component |-> root_component,
     score |-> score]

RuleNode == Rule("node_notready", "all", <<Sig("event", "", Absent, Zero, "NodeNotReady")>>,
                 "node", NoScore)
RuleRollout == Rule("rollout_5xx", "all", <<Sig("metric", "http5xx", ">=", One, "")>>,
                    "deployment", [change_flag |-> Tenths(1)])
RulePod == Rule("pod_self", "none", <<>>, "pod",
                [temporal |-> Tenths(2), topology |-> Tenths(4),
                 magnitude |-> Tenths(3), change_flag |-> Zero])
RuleHpa == Rule("hpa_errors", "any",
                <<Sig("flag", "", Absent, Zero, ""), Sig("metric", "error_ratio", Absent, Tenths(2), "")>>,
                "hpa", [topology |-> Tenths(5)])
RuleNegative == Rule("negative", "none", <<>>, NoneV,
                     [temporal |-> Tenths(-1), magnitude |-> Tenths(-2)])
RuleAnyBad == Rule("any_bad", "any",
                   <<Sig("log_pattern", "", Absent, Zero, "scaled"), Sig("metric", "count", "=~", One, "")>>,
                   "pvc", NoScore)

RuleSet == {RuleNode, RuleRollout, RulePod, RuleHpa, RuleNegative, RuleAnyBad}

BaseRules == <<RuleNode, RuleRollout>>

\* rule lists: a rule id is unique in a rule file
RuleLists == {rs \in SeqsUpTo(RuleSet, MaxRules) :
                 \A i, j \in 1..Len(rs) : i # j => rs[i].id # rs[j].id}

----------------------------------------------------------------------------
(* The run: scripts/run_rca_step.py *)

NoRet == [op |-> "none", start |-> <<>>, max_hops |-> 0, direction |-> "both",
          err |-> "", val |-> {}, len |-> NoneLen]

\* the state before the first statement of the driver, given its inputs
Start(snap, table, rs, hashfn) ==
    /\ pc = "graph"
    /\ err = ""
    /\ snapshot = snap
    /\ df = table
    /\ rules = rs
    /\ strhash = hashfn
    /\ graph = EmptyGraph
    /\ episodes = <<>>
    /\ idx = 0
    /\ cands = <<>>
    /\ files = <<>>
    /\ ret = NoRet
    /\ history = <<>>

\* event tables of every shape, under every hash assignment of the process
InitEvents ==
    \E table \in Tables : \E hashfn \in [KeysOf(table) -> RawHashes] :
        Start(BaseSnapshot, table, BaseRules, hashfn)

\* rule lists of every shape
InitRules ==
    \E rs \in RuleLists : \E table \in RuleTables : \E snap \in RuleSnapshots :
        Start(snap, table, rs, DistinctHash)

\* tables with a group larger than the sample
InitLong == \E table \in LongTables : Start(BaseSnapshot, table, BaseRules, DistinctHash)

Init == InitEvents \/ InitRules \/ InitLong

\* graph = build_from_snapshot(json.loads(...))
BuildGraph ==
    /\ pc = "graph"
    /\ LET st == build_from_snapshot(snapshot) IN
       IF st.err # ""
       THEN /\ pc' = "failed" /\ err' = st.err /\ graph' = graph
       ELSE /\ pc' = "episodes" /\ err' = "" /\ graph' = st.g
    /\ UNCHANGED <<snapshot, df, rules, strhash, episodes, idx, cands, files, ret, history>>

\* episodes = build_episodes(df, window=args.window); rules = load_rules(...)
BuildEpisodes ==
    /\ pc = "episodes"
    /\ episodes' = build_episodes(df, strhash)
    /\ pc' = "loop"
    /\ UNCHANGED <<err, snapshot, df, rules, strhash, graph, idx, cands, files, ret, history>>

ExemplarCap == 10        \* ep.events[:10]

episode_to_incident(ep, cs) ==
    [episode_id |-> ep.episode_id, start |-> ep.start, end |-> ep.end,
     entities |-> ep.entities, features |-> ep.features, candidates |-> cs,
     exemplars |-> SubSeq(ep.events, 1, Min2(ExemplarCap, Len(ep.events)))]

\* one turn of "for ep in episodes": apply_rules, then write <episode_id>.json
ProcessEpisode ==
    /\ pc = "loop"
    /\ idx < Len(episodes)
    /\ LET ep == episodes[idx + 1] IN
       /\ \E o \in apply_rules(ep, rules, graph) :
             IF o.err # ""
             THEN /\ pc' = "failed" /\ err' = o.err
                  /\ UNCHANGED <<idx, cands, files>>
             ELSE /\ cands' = o.cands
                  /\ files' = Put(files, ep.episode_id, episode_to_incident(ep, o.cands))
                  /\ idx' = idx + 1
                  /\ UNCHANGED <<pc, err>>
       /\ graph' = GraphAfterRules(graph, ep, rules)
    /\ UNCHANGED <<snapshot, df, rules, strhash, episodes, ret, history>>

\* the loop is over: print the number of files
Finish ==
    /\ pc = "loop"
    /\ idx = Len(episodes)
    /\ pc' = "done"
    /\ UNCHANGED <<err, snapshot, df, rules, strhash, graph, episodes, idx, cands, files, ret, history>>

Next == BuildGraph \/ BuildEpisodes \/ ProcessEpisode \/ Finish

Spec == Init /\ [][Next]_vars

----------------------------------------------------------------------------
(* The driver executed again on the same inputs.  Each execution is a new  *)
(* Python process: hash() of a str is salted per process (PYTHONHASHSEED   *)
(* is not set by the driver), the output directory is kept                 *)
(* (mkdir(exist_ok=True)).                                                 *)

MaxRuns == 2       \* executions of the driver on the same inputs

EpisodeIds == [i \in 1..Len(episodes) |-> episodes[i].episode_id]

Rerun ==
    /\ pc = "done"
    /\ Len(history) + 1 < MaxRuns
    /\ history' = Append(history, EpisodeIds)
    /\ strhash' \in [DOMAIN strhash -> RawHashes]
    /\ pc' = "graph"
    /\ graph' = EmptyGraph
    /\ episodes' = <<>>
    /\ idx' = 0
    /\ cands' = <<>>
    /\ UNCHANGED <<err, snapshot, df, rules, files, ret>>

NextRerun == Next \/ Rerun

SpecRerun == InitEvents /\ [][NextRerun]_vars

----------------------------------------------------------------------------
(* The graph on its own: snapshots of every shape, and the queries of the  *)
(* Graph API on the graph built from them.                                 *)

InitGraph == \E snap \in Snapshots : Start(snap, <<>>, <<>>, <<>>)

\* ids a query may name: those of the graph and one it does not know
QueryIds == (DOMAIN graph.meta) \cup (DOMAIN graph.adj) \cup (DOMAIN graph.radj)
            \cup {<<"pod", "shop", "x">>}

Directions == {"out", "in", "both"}

RECURSIVE ListOf(_)
ListOf(S) == IF S = {} THEN <<>> ELSE LET x == CHOOSE y \in S : TRUE IN <<x>> \o ListOf(S \ {x})

\* seed lists: up to MaxSeeds distinct ids
SeedLists == {ListOf(S) : S \in {T \in SUBSET QueryIds : Cardinality(T) <= MaxSeeds}}

\* a query is made on the graph once it is built; pc is "queried" afterwards
HasGraph == pc = "episodes"

BfsQuery ==
    /\ HasGraph
    /\ \E start \in SeedLists, h \in 0..MaxHops, dir \in Directions :
          LET r == bfs(graph, start, h, dir) IN
          ret' = [op |-> "bfs", start |-> start, max_hops |-> h, direction |-> dir,
                  err |-> r.err, val |-> r.val, len |-> NoneLen]
    /\ pc' = "queried"
    /\ UNCHANGED <<err, snapshot, df, rules, strhash, graph, episodes, idx, cands, files, history>>

ShortestPathQuery ==
    /\ HasGraph
    /\ \E a \in QueryIds, b \in QueryIds, h \in 0..MaxHops, dir \in Directions :
          ret' = [op |-> "shortest_path_len", start |-> <<a, b>>, max_hops |-> h,
                  direction |-> dir, err |-> "", val |-> {},
                  len |-> shortest_path_len(graph, a, b, dir, h)]
    /\ pc' = "queried"
    /\ UNCHANGED <<err, snapshot, df, rules, strhash, graph, episodes, idx, cands, files, history>>

\* the orders a dict with the key set S can list its keys in
KeyOrders(S) == {f \in [1..Cardinality(S) -> S] : \A i, j \in 1..Cardinality(S) : f[i] = f[j] => i = j}

\* h = Graph.from_json(g.to_json()).  The model's adj does not record the
\* insertion order of its keys, so every order of the sources is tried;
\* sources without edges yield nothing and are left out.
RoundTrip ==
    /\ HasGraph
    /\ \E srcs \in KeyOrders({k \in DOMAIN graph.adj : graph.adj[k] # <<>>}) :
          ret' = [op |-> "from_json", start |-> srcs, max_hops |-> 0, direction |-> "both",
                  err |-> "", val |-> from_json(to_json(graph, srcs)), len |-> NoneLen]
    /\ pc' = "queried"
    /\ UNCHANGED <<err, snapshot, df, rules, strhash, graph, episodes, idx, cands, files, history>>

NextGraph == BuildGraph \/ BfsQuery \/ ShortestPathQuery \/ RoundTrip

SpecGraph == InitGraph /\ [][NextGraph]_vars

----------------------------------------------------------------------------
(* Properties *)

\* the driver has the result of apply_rules for episodes[idx] in cands
Processed == pc \in {"loop", "done"} /\ idx >= 1

RuleById(id) == CHOOSE r \in RuleSet : r.id = id

\* the edges of a graph as (src, dst) pairs, read off the forward lists
Edges(g) == UNION {{<<s, g.adj[s][i][1]>> : i \in 1..Len(g.adj[s])} : s \in DOMAIN g.adj}

StepSet(g, S, direction) ==
    LET fwd == {e[2] : e \in {x \in Edges(g) : x[1] \in S}}
        bwd == {e[1] : e \in {x \in Edges(g) : x[2] \in S}}
    IN IF direction = "out" THEN fwd ELSE IF direction = "in" THEN bwd ELSE fwd \cup bwd

\* the nodes at most k edges away from the set S
RECURSIVE Within(_, _, _, _)
Within(g, S, k, direction) ==
    IF k = 0 THEN S
    ELSE LET R == Within(g, S, k - 1, direction) IN R \cup StepSet(g, R, direction)

\* the least number of edges, taken in either direction, from a to b
HopDist(g, a, b) ==
    IF \E k \in 0..RuleBfsHops : b \in Within(g, {a}, k, "both")
    THEN CHOOSE k \in 0..RuleBfsHops :
            /\ b \in Within(g, {a}, k, "both")
            /\ \A j \in 0..(k - 1) : b \notin Within(g, {a}, j, "both")
    ELSE NoneLen

SnapshotPods == {snapshot.pods[i] : i \in 1..Len(snapshot.pods)}

\* C1: an episode whose pod entity is the bare name of a pod of the snapshot
\* that runs on node n gets, from a matching rule with root_component "node",
\* a candidate with component node/<n> and the topology term of hop 1
\* (weight x 0.8; 0.32 and score 0.92 in scenario 1).
C1_RootIsNodeOfPod ==
    Processed =>
        LET ep == episodes[idx] IN
        \A p \in SnapshotPods : \A i \in 1..Len(cands) :
            ( /\ ep.entities.pod # <<>>
              /\ ep.entities.pod[1] = <<p.name>>
              /\ ep.entities.namespace = <<<<p.ns>>>>
              /\ Truthy(p.node)
              /\ RuleById(cands[i].reason).root_component = "node" )
            => /\ cands[i].component = <<"node", p.node>>
               /\ cands[i].score_breakdown.topology =
                      RMul(Weight(RuleById(cands[i].reason), "topology", Tenths(4)), Rat(4, 5))
               /\ (cands[i].reason = "node_notready" /\ ep.features.error_ratio = One)
                      => cands[i].score = Rat(92, 100)

\* C2: in a graph returned by build_from_snapshot every edge endpoint, in adj
\* and in radj, is a key of meta.
C2_EdgeEndpointsInMeta ==
    pc \in {"episodes", "queried"} =>
        /\ \A s \in DOMAIN graph.adj : \A i \in 1..Len(graph.adj[s]) :
              s \in DOMAIN graph.meta /\ graph.adj[s][i][1] \in DOMAIN graph.meta
        /\ \A d \in DOMAIN graph.radj : \A i \in 1..Len(graph.radj[d]) :
              d \in DOMAIN graph.meta /\ graph.radj[d][i][1] \in DOMAIN graph.meta

MatchedRules(ep) == {j \in 1..Len(rules) : RuleOk(ep, rules[j]).val}

ScoreOfRule(ep, j) ==
    CHOOSE sc \in {Candidate(ep, rules[j], c).score : c \in RootChoices(graph, Focus(ep), rules[j])} : TRUE

\* C3: apply_rules returns at most 3 candidates, in non-increasing order of
\* score, as many as there are matched rules up to 3, and no matched rule
\* that was left out scores more than a returned candidate.
C3_TopThreeByScore ==
    Processed =>
        LET ep == episodes[idx]
            M  == MatchedRules(ep)
        IN /\ Len(cands) <= 3
           /\ Len(cands) = Min2(3, Cardinality(M))
           /\ \A i \in 1..(Len(cands) - 1) : RLe(cands[i + 1].score, cands[i].score)
           /\ \A i \in 1..Len(cands) :
                 Cardinality({j \in M : RLt(cands[i].score, ScoreOfRule(ep, j))})
                     <= Cardinality({k \in 1..Len(cands) : RLt(cands[i].score, cands[k].score)})

\* C3 witness: four or more rules matched, a later rule scores more than the
\* first one, a matched rule scores less than the third candidate, and three
\* candidates came back
C3_Witness ==
    /\ Processed
    /\ Len(cands) = 3
    /\ Cardinality(MatchedRules(episodes[idx])) >= 4
    /\ \E j \in MatchedRules(episodes[idx]) :
          /\ j > 1
          /\ RLt(ScoreOfRule(episodes[idx], 1), ScoreOfRule(episodes[idx], j))
    /\ \E j \in MatchedRules(episodes[idx]) :
          RLt(ScoreOfRule(episodes[idx], j), cands[3].score)

\* C4: bfs returns, without raising, exactly the nodes within max_hops edges
\* (in the given direction) of the seeds that are keys of meta.
C4_BfsIsBoundedReach ==
    ret.op = "bfs" =>
        /\ ret.err = ""
        /\ ret.val = Within(graph,
                            {ret.start[i] : i \in 1..Len(ret.start)} \cap DOMAIN graph.meta,
                            ret.max_hops, ret.direction)

BreakdownSum(c) ==
    RAdd(RAdd(RAdd(c.score_breakdown.temporal, c.score_breakdown.topology),
              c.score_breakdown.magnitude), c.score_breakdown.change)

TermsNonNegative(c) ==
    /\ RLe(Zero, c.score_breakdown.temporal)
    /\ RLe(Zero, c.score_breakdown.topology)
    /\ RLe(Zero, c.score_breakdown.magnitude)
    /\ RLe(Zero, c.score_breakdown.change)
    /\ RLe(Zero, c.score)

WeightsNonNegative(r) == \A n \in DOMAIN r.score : RLe(Zero, r.score[n])

\* C5 (as claimed): for any rule, own weights included, the four terms and
\* the score of every candidate are >= 0 and the score is the rounded sum.
C5_AllTermsNonNegative ==
    Processed =>
        \A i \in 1..Len(cands) :
            TermsNonNegative(cands[i]) /\ cands[i].score = Round4(BreakdownSum(cands[i]))

\* C5 (amended): the score of every candidate is the sum of its four terms
\* rounded to 4 decimals; the terms and the score are >= 0 when none of the
\* weights the rule gives is negative.
C5_SumAndNonNegativeWeights ==
    Processed =>
        \A i \in 1..Len(cands) :
            /\ cands[i].score = Round4(BreakdownSum(cands[i]))
            /\ WeightsNonNegative(RuleById(cands[i].reason)) => TermsNonNegative(cands[i])

\* C5 witness: a candidate of a rule with weights of its own, none negative,
\* whose topology and magnitude terms are both positive
C5_Witness ==
    /\ Processed
    /\ \E i \in 1..Len(cands) :
          /\ RuleById(cands[i].reason).score # NoScore
          /\ WeightsNonNegative(RuleById(cands[i].reason))
          /\ RLt(Zero, cands[i].score_breakdown.topology)
          /\ RLt(Zero, cands[i].score_breakdown.magnitude)

\* the rows of the event table that make up the group of episode ep
EpisodeRows(ep) ==
    SelectSeq(df, LAMBDA r : WindowStart(r.ts) = ep.start /\ Entities(<<r>>) = ep.entities)

\* C6: a group with an event that has rollout_in_window = 1 gives the episode
\* feature rollout_in_window = 1, and a matching rule with change_flag = c
\* then gets the change term c x 1.
C6_RolloutReachesScore ==
    pc \in {"loop", "done"} =>
        \A k \in 1..Len(episodes) :
            LET ep   == episodes[k]
                rows == EpisodeRows(ep)
            IN (\E i \in 1..Len(rows) : rows[i].rollout_in_window = 1) =>
                  /\ "rollout_in_window" \in DOMAIN ep.features
                  /\ ep.features["rollout_in_window"] = One
                  /\ k = idx => \A i \in 1..Len(cands) :
                        cands[i].score_breakdown.change =
                            Weight(RuleById(cands[i].reason), "change_flag", Zero)

\* C7: when the chosen component matches the root_component prefix and lies
\* d hops (0..3) from the focus, the topology term is weight x max(0, 1 - 0.2 d);
\* the full weight at d = 0.
C7_TopologyScoreByHops ==
    Processed =>
        \A i \in 1..Len(cands) :
            LET r     == RuleById(cands[i].reason)
                focus == Focus(episodes[idx])
                d     == HopDist(graph, focus, cands[i].component)
            IN ( /\ Truthy(r.root_component)
                 /\ focus \in DOMAIN graph.meta
                 /\ StartsWith(cands[i].component, r.root_component)
                 /\ d \in 0..RuleBfsHops )
               => cands[i].score_breakdown.topology =
                      RMul(Weight(r, "topology", Tenths(4)),
                           RMax(Zero, RAdd(One, Rat(-2 * d, 10))))

\* C8: rule evaluation never aborts: whatever the signals of the rules, the
\* run does not fail inside the episode loop.
C8_RuleEvaluationNeverAborts == ~(pc = "failed" /\ idx < Len(episodes))

\* C9: build_from_snapshot never ends in an error, whatever fields the
\* records of the snapshot lack.
C9_BuildIsTotal == pc # "graph" => (pc # "failed" /\ err = "")

\* C10: two episodes of the same window never share an episode_id, and the
\* finished run has written as many files as there are episodes.
C10_DistinctEpisodeIds ==
    pc \in {"loop", "done"} =>
        /\ \A i, j \in 1..Len(episodes) :
              (i # j /\ episodes[i].start = episodes[j].start)
                  => episodes[i].episode_id # episodes[j].episode_id
        /\ pc = "done" => Cardinality(DOMAIN files) = Len(episodes)

\* C11: a second execution of the driver on the same event table and window
\* gives every episode the episode_id it had in the first execution, so the
\* re-run writes the same file names.
C11_EpisodeIdStableAcrossRuns ==
    (pc \in {"loop", "done"} /\ history # <<>>) =>
        /\ \A h \in 1..Len(history) : EpisodeIds = history[h]
        /\ pc = "done" => DOMAIN files = {EpisodeIds[i] : i \in 1..Len(episodes)}

\* the distinct (src, dst, rel) triples of a graph
Triples(g) ==
    UNION {{<<s, g.adj[s][i][1], g.adj[s][i][2]>> : i \in 1..Len(g.adj[s])} : s \in DOMAIN g.adj}

\* C12: h = from_json(to_json(g)) has the meta keys and the distinct edge
\* triples of g, and bfs and shortest_path_len return on h what they return
\* on g, for all seeds, endpoints, directions and hop limits.
C12_JsonRoundTrip ==
    ret.op = "from_json" =>
        LET h == ret.val IN
        /\ DOMAIN h.meta = DOMAIN graph.meta
        /\ Triples(h) = Triples(graph)
        /\ \A start \in SeedLists, k \in 0..MaxHops, dir \in Directions :
              bfs(h, start, k, dir) = bfs(graph, start, k, dir)
        /\ \A a \in QueryIds, b \in QueryIds, k \in 0..MaxHops, dir \in Directions :
              shortest_path_len(h, a, b, dir, k) = shortest_path_len(graph, a, b, dir, k)

\* C12 witness: a graph with a repeated edge and an edge to an id without
\* metadata went through JSON, and its copy's adjacency lists differ
C12_Witness ==
    /\ ret.op = "from_json"
    /\ ret.val.adj # graph.adj
    /\ \E s \in DOMAIN graph.adj : \E i \in 1..Len(graph.adj[s]) :
          graph.adj[s][i][1] \notin DOMAIN graph.meta
    /\ Cardinality(Triples(graph)) >= 2

\* C13: for one seed s and the default direction, bfs([s], h) contains
\* bfs([s], h - 1) for h >= 1, and bfs([s], 0) is {s} when s is a key of meta
\* and empty otherwise.
C13_BfsMonotoneInHops ==
    (ret.op = "bfs" /\ Len(ret.start) = 1 /\ ret.direction = "both") =>
        /\ ret.err = ""
        /\ ret.max_hops >= 1 =>
              bfs(graph, ret.start, ret.max_hops - 1, "both").val \subseteq ret.val
        /\ ret.max_hops = 0 =>
              ret.val = (IF ret.start[1] \in DOMAIN graph.meta THEN {ret.start[1]} ELSE {})

\* C13 witness: a call with one known seed and max_hops = 2 that found more
\* than the call with max_hops = 1, which found more than the seed
C13_Witness ==
    /\ ret.op = "bfs" /\ Len(ret.start) = 1 /\ ret.direction = "both"
    /\ ret.max_hops = 2
    /\ bfs(graph, ret.start, 1, "both").val # ret.val
    /\ bfs(graph, ret.start, 1, "both").val # bfs(graph, ret.start, 0, "both").val

\* the least k <= max_hops with b within k edges of a in the direction, when
\* both are keys of meta; None otherwise
MinHops(g, a, b, direction, max_hops) ==
    IF a \in DOMAIN g.meta /\ b \in DOMAIN g.meta
       /\ \E k \in 0..max_hops : b \in Within(g, {a}, k, direction)
    THEN CHOOSE k \in 0..max_hops :
            /\ b \in Within(g, {a}, k, direction)
            /\ \A j \in 0..(k - 1) : b \notin Within(g, {a}, j, direction)
    ELSE NoneLen

\* a node that an edge or a directed path of edges leads back to
OnCycle(g, n) == \E k \in 1..3 : n \in StepSet(g, Within(g, {n}, k - 1, "out"), "out")

\* C14: on graphs with cycles, self-loops and repeated edges, for every
\* direction and max_hops, shortest_path_len(a, b) is the least number of
\* edges of a path from a to b in that direction when that is <= max_hops,
\* and None when there is no such path or a or b is not a key of meta.
C14_ShortestPathIsMinHops ==
    ret.op = "shortest_path_len" =>
        ret.len = MinHops(graph, ret.start[1], ret.start[2], ret.direction, ret.max_hops)

\* C14 witness: on a graph where a node lies on a cycle, a query between two
\* different nodes along the edge direction returned a length
C14_Witness ==
    /\ ret.op = "shortest_path_len"
    /\ \E n \in DOMAIN graph.adj : OnCycle(graph, n)
    /\ ret.direction = "out"
    /\ ret.len >= 1

\* C15: every episode has end = start + window and sampled events with
\* start <= ts < end; episodes of different windows have disjoint
\* [start, end) intervals and different episode_ids.
C15_EventsInsideWindow ==
    pc \in {"loop", "done"} =>
        /\ \A k \in 1..Len(episodes) :
              /\ episodes[k].end = episodes[k].start + WindowMinutes
              /\ \A i \in 1..Len(episodes[k].events) :
                    /\ episodes[k].start <= episodes[k].events[i].ts
                    /\ episodes[k].events[i].ts < episodes[k].end
        /\ \A k, j \in 1..Len(episodes) :
              episodes[k].start # episodes[j].start =>
                 /\ episodes[k].end <= episodes[j].start \/ episodes[j].end <= episodes[k].start
                 /\ episodes[k].episode_id # episodes[j].episode_id

\* C15 witness: episodes of two windows, one with an event on the window
\* start and one with an event past the middle of its window, whose group
\* keys have the same hash
C15_Witness ==
    /\ pc = "loop"
    /\ \E k, j \in 1..Len(episodes) :
          /\ episodes[k].start # episodes[j].start
          /\ episodes[k].episode_id[2] = episodes[j].episode_id[2]
          /\ \E i \in 1..Len(episodes[k].events) : episodes[k].events[i].ts = episodes[k].start
          /\ \E i \in 1..Len(episodes[j].events) :
                episodes[j].events[i].ts >= episodes[j].start + WindowMinutes \div 2

\* ids that occur in the adjacency lists of g without a list of their own
NoOwnList(g) ==
    {n \in DOMAIN g.radj : n \notin DOMAIN g.adj} \cup {n \in DOMAIN g.adj : n \notin DOMAIN g.radj}

\* C16: rule evaluation is read-only: after any number of apply_rules calls,
\* with the bfs, neighbors and shortest_path_len queries they make (also on
\* ids that have no metadata or no adjacency list), the graph is the graph
\* that was built from the snapshot and the episodes are the episodes that
\* were built from the event table.
C16_RuleEvaluationReadOnly ==
    (pc \in {"loop", "done"} \/ (pc = "failed" /\ episodes # <<>>)) =>
        /\ graph = build_from_snapshot(snapshot).g
        /\ episodes = build_episodes(df, strhash)

\* C16 witness: apply_rules has scored a rule whose queries called
\* neighbors() on an id that has no adjacency list of its own
C16_Witness ==
    /\ Processed
    /\ \E i \in ScoredRules(episodes[idx], rules) :
          RuleExpanded(graph, episodes[idx], rules[i]) \cap NoOwnList(graph) # {}

SortedByTs(table) == \A i \in 1..(Len(table) - 1) : table[i].ts <= table[i + 1].ts

\* the sample holds the n rows of the group with the earliest ts: for every
\* time t it has as many events up to t as the group has, up to n
EarliestOf(events, rows) ==
    \A t \in {rows[j].ts : j \in 1..Len(rows)} :
        Cardinality({i \in 1..Len(events) : events[i].ts <= t})
            = Min2(Len(events), Cardinality({j \in 1..Len(rows) : rows[j].ts <= t}))

NonDecreasingTs(events) == \A i \in 1..(Len(events) - 1) : events[i].ts <= events[i + 1].ts

\* C17: the sample of every group has at most 200 events, as many as the
\* group has up to 200, is ordered by non-decreasing ts and holds the
\* chronologically first rows of the group, whatever the order of the input
\* table.
C17_SampleIsChronological ==
    pc \in {"loop", "done"} =>
        \A k \in 1..Len(episodes) :
            LET events == episodes[k].events
                rows   == EpisodeRows(episodes[k])
            IN /\ Len(events) <= SampleCap
               /\ Len(events) = Min2(SampleCap, Len(rows))
               /\ \A i \in 1..Len(events) : \E j \in 1..Len(rows) : events[i] = Event(rows[j])
               /\ NonDecreasingTs(events)
               /\ EarliestOf(events, rows)

\* C17 witness: a table that is not sorted by ts, with a group of more than
\* 200 rows whose earliest row comes last; the sample has 200 events and
\* starts with that row
C17_Witness ==
    /\ pc = "loop"
    /\ ~SortedByTs(df)
    /\ \E k \in 1..Len(episodes) :
          /\ Len(EpisodeRows(episodes[k])) > SampleCap
          /\ Len(episodes[k].events) = SampleCap
          /\ episodes[k].events[1].ts = df[Len(df)].ts
          /\ episodes[k].events[1].ts < episodes[k].events[SampleCap].ts

InSeq(sq, x) == \E i \in 1..Len(sq) : sq[i] = x

\* the ids of a neighbour list that are not yet in the sequence, appended in
\* list order
RECURSIVE AppendNew(_, _, _)
AppendNew(order, neigh, i) ==
    IF i > Len(neigh) THEN order
    ELSE AppendNew(IF InSeq(order, neigh[i][1]) THEN order ELSE Append(order, neigh[i][1]),
                   neigh, i + 1)

\* the nodes within RuleBfsHops of the focus in the order a breadth-first walk
\* of the adjacency lists (forward list, then reverse list) first meets them
RECURSIVE InsertionOrder(_, _, _)
InsertionOrder(g, order, i) ==
    IF i > Len(order) THEN order
    ELSE IF HopDist(g, order[1], order[i]) = RuleBfsHops THEN InsertionOrder(g, order, i + 1)
    ELSE InsertionOrder(g, AppendNew(order, neighbors(g, order[i], "both"), 1), i + 1)

\* the closest match that comes first in the insertion order
FirstClosest(g, focus, root_component) ==
    LET matches == Matches(g, focus, root_component)
        best    == {n \in matches : \A m \in matches :
                       PathLenOr99(g, focus, n) <= PathLenOr99(g, focus, m)}
        order   == InsertionOrder(g, <<focus>>, 1)
    IN order[CHOOSE i \in 1..Len(order) :
                 order[i] \in best /\ \A j \in 1..(i - 1) : order[j] \notin best]

\* C18: root selection is deterministic: every evaluation of the episode,
\* rule list and graph gives a rule with root_component, a present focus and
\* at least one match the same component, the closest match that comes first
\* in the insertion order of the adjacency lists.
C18_TieBrokenByInsertionOrder ==
    Processed =>
        \A o \in apply_rules(episodes[idx], rules, graph) :
            o.err = "" =>
               \A i \in 1..Len(o.cands) :
                  LET r     == RuleById(o.cands[i].reason)
                      focus == Focus(episodes[idx])
                  IN ( /\ Truthy(r.root_component)
                       /\ focus # NoId
                       /\ Matches(graph, focus, r.root_component) # {} )
                     => o.cands[i].component = FirstClosest(graph, focus, r.root_component)

\* shortest_path_len(focus, n) is absent
NoPath(g, focus, n) == shortest_path_len(g, focus, n, "both", DefaultSplHops) = NoneLen

\* C19: for a matching rule with root_component and a present focus, a match
\* without a path from the focus is never the candidate's component; when no
\* match has a path the topology term is 0 and the component is the focus.
C19_PathlessMatchDropped ==
    Processed =>
        \A i \in 1..Len(cands) :
            LET r       == RuleById(cands[i].reason)
                focus   == Focus(episodes[idx])
                matches == Matches(graph, focus, r.root_component)
            IN (Truthy(r.root_component) /\ focus # NoId) =>
                  /\ ~(cands[i].component \in matches /\ NoPath(graph, focus, cands[i].component))
                  /\ (\A n \in matches : NoPath(graph, focus, n)) =>
                        /\ cands[i].score_breakdown.topology = Zero
                        /\ cands[i].component = focus

====
